---- MODULE Spec2Model ----
(***************************************************************************)
(* The static documentation-site route/navigation model of the Refract     *)
(* documentation repository: the three generated route tables, the         *)
(* tutorialSidebar tree of sidebars.js, and the client-side router that    *)
(* resolves a request path against a table (spec.md 4.1) and locates the   *)
(* page in the sidebar (spec.md 4.2).  The tables and the sidebar are      *)
(* transcribed from the sources; the resolver and the walker are not part  *)
(* of the sources and follow the contract of spec.md section 4.            *)
(***************************************************************************)
EXTENDS Integers, Sequences, FiniteSets, TLC

VARIABLES
  table,     \* the route table the router has loaded
  sidebar,   \* the sidebar tree exported by sidebars.js
  location,  \* the request path last resolved
  match,     \* the position of the record it resolved to, or NoMatch
  walk,      \* the sidebar position found for the resolved page
  config,    \* the site configuration the build runs under
  status,    \* the build: "idle", "running", "failed" or "done"
  checked,   \* the number of internal links the build has checked
  broken,    \* the number of those that were broken
  warnings,  \* the number of broken links the build has logged
  pc,            \* the statement of sidebars.js the load has reached
  moduleExports, \* module.exports of sidebars.js
  files,         \* the contents of the files present below static/img
  destWritable,  \* whether the process may write the destination file
  console,       \* the messages written by console.log
  thrown         \* the error code the load has thrown, or NoError

vars ==
  <<table, sidebar, location, match, walk,
    config, status, checked, broken, warnings,
    pc, moduleExports, files, destWritable, console, thrown>>

routerVars == <<table, sidebar, location, match, walk>>

buildVars == <<config, status, checked, broken, warnings>>

loadVars == <<pc, moduleExports, files, destWritable, console, thrown>>

(***************************************************************************)
(* Route tables.  A node is a record carrying exactly the keys the source  *)
(* object literal carries: path, component (the hash given to              *)
(* ComponentCreator, "" when none is given), and where present exact,      *)
(* sidebar and routes.                                                     *)
(***************************************************************************)

\* refract-docs/.docusaurus/routes.js lines 5-74: the top-level records listed before the '/docs' node.
DocusaurusTopRoutes ==
  <<
    [path |-> "/blog", component |-> "e35", exact |-> TRUE],
    [path |-> "/blog/archive", component |-> "182", exact |-> TRUE],
    [path |-> "/blog/introducing-refract", component |-> "261", exact |-> TRUE],
    [path |-> "/blog/performance-optimization-guide", component |-> "360", exact |-> TRUE],
    [path |-> "/blog/tags", component |-> "287", exact |-> TRUE],
    [path |-> "/blog/tags/advanced", component |-> "e70", exact |-> TRUE],
    [path |-> "/blog/tags/announcement", component |-> "3d6", exact |-> TRUE],
    [path |-> "/blog/tags/best-practices", component |-> "699", exact |-> TRUE],
    [path |-> "/blog/tags/javascript", component |-> "fcb", exact |-> TRUE],
    [path |-> "/blog/tags/optimization", component |-> "09c", exact |-> TRUE],
    [path |-> "/blog/tags/performance", component |-> "93a", exact |-> TRUE],
    [path |-> "/blog/tags/reactive", component |-> "390", exact |-> TRUE],
    [path |-> "/blog/tags/ui", component |-> "1e9", exact |-> TRUE],
    [path |-> "/search", component |-> "822", exact |-> TRUE]
  >>

\* refract-docs/.docusaurus/routes.js lines 87-242: the page records nested innermost under '/docs'.
DocusaurusDocsLeaves ==
  <<
    [path |-> "/docs/advanced/performance", component |-> "cef", exact |-> TRUE],
    [path |-> "/docs/advanced/testing", component |-> "7ad", exact |-> TRUE],
    [path |-> "/docs/api", component |-> "a3f", exact |-> TRUE],
    [path |-> "/docs/api/createApp", component |-> "090", exact |-> TRUE, sidebar |-> "tutorialSidebar"],
    [path |-> "/docs/api/createComponent", component |-> "e73", exact |-> TRUE, sidebar |-> "tutorialSidebar"],
    [path |-> "/docs/api/createOptic", component |-> "ae2", exact |-> TRUE, sidebar |-> "tutorialSidebar"],
    [path |-> "/docs/api/overview", component |-> "211", exact |-> TRUE, sidebar |-> "tutorialSidebar"],
    [path |-> "/docs/api/useEffect", component |-> "a6d", exact |-> TRUE, sidebar |-> "tutorialSidebar"],
    [path |-> "/docs/api/useFlash", component |-> "3ce", exact |-> TRUE, sidebar |-> "tutorialSidebar"],
    [path |-> "/docs/api/useLens", component |-> "5c2", exact |-> TRUE, sidebar |-> "tutorialSidebar"],
    [path |-> "/docs/api/useOptic", component |-> "6b0", exact |-> TRUE, sidebar |-> "tutorialSidebar"],
    [path |-> "/docs/api/useRefraction", component |-> "a76", exact |-> TRUE, sidebar |-> "tutorialSidebar"],
    [path |-> "/docs/concepts/components", component |-> "749", exact |-> TRUE, sidebar |-> "tutorialSidebar"],
    [path |-> "/docs/concepts/effects", component |-> "4d4", exact |-> TRUE, sidebar |-> "tutorialSidebar"],
    [path |-> "/docs/concepts/lenses", component |-> "d44", exact |-> TRUE, sidebar |-> "tutorialSidebar"],
    [path |-> "/docs/concepts/optics", component |-> "635", exact |-> TRUE, sidebar |-> "tutorialSidebar"],
    [path |-> "/docs/concepts/refractions", component |-> "319", exact |-> TRUE, sidebar |-> "tutorialSidebar"],
    [path |-> "/docs/concepts/state-management", component |-> "781", exact |-> TRUE],
    [path |-> "/docs/contributing", component |-> "069", exact |-> TRUE, sidebar |-> "tutorialSidebar"],
    [path |-> "/docs/getting-started", component |-> "2a1", exact |-> TRUE, sidebar |-> "tutorialSidebar"],
    [path |-> "/docs/installation", component |-> "176", exact |-> TRUE],
    [path |-> "/docs/intro", component |-> "61d", exact |-> TRUE, sidebar |-> "tutorialSidebar"],
    [path |-> "/docs/tutorials/animation-basics", component |-> "270", exact |-> TRUE, sidebar |-> "tutorialSidebar"],
    [path |-> "/docs/tutorials/counter-app", component |-> "680", exact |-> TRUE, sidebar |-> "tutorialSidebar"],
    [path |-> "/docs/tutorials/getting-started", component |-> "1ff", exact |-> TRUE],
    [path |-> "/docs/tutorials/global-theme", component |-> "a07", exact |-> TRUE, sidebar |-> "tutorialSidebar"],
    [path |-> "/docs/tutorials/todo-list", component |-> "447", exact |-> TRUE, sidebar |-> "tutorialSidebar"]
  >>

\* Fault variant: the '/docs' node with one wrapper level missing.
DocusaurusDocsNestTwoLevels ==
  [path |-> "/docs", component |-> "008", routes |->
      <<[path |-> "/docs", component |-> "2a7", routes |-> DocusaurusDocsLeaves]>>]

\* refract-docs/.docusaurus/routes.js lines 75-248: the '/docs' node and the wrapper nodes nested in it.
DocusaurusDocsNest ==
  [path |-> "/docs", component |-> "008", routes |-> 
      <<[path |-> "/docs", component |-> "792", routes |->
        <<[path |-> "/docs", component |-> "2a7", routes |-> DocusaurusDocsLeaves]>>]>>]

\* Fault variant: the home record emitted without its exact flag.
DocusaurusHomeNoExact == [path |-> "/", component |-> "2e1"]

\* refract-docs/.docusaurus/routes.js lines 249-253: the home record '/'.
DocusaurusHome == [path |-> "/", component |-> "2e1", exact |-> TRUE]

\* refract-docs/.docusaurus/routes.js lines 254-257: the not-found record '*' (no hash, no exact flag).
DocusaurusWildcard == [path |-> "*", component |-> ""]

\* Fault variant: the table emitted without the not-found record.
DocusaurusRoutesNoWildcard ==
  DocusaurusTopRoutes \o <<DocusaurusDocsNest>> \o <<DocusaurusHome>>

\* Fault variant: a stale '/blog' record of another build left in the table.
DocusaurusRoutesStaleBlog ==
  <<[path |-> "/blog", component |-> "04d", exact |-> TRUE]>>
    \o DocusaurusTopRoutes \o <<DocusaurusDocsNest>>
    \o <<DocusaurusHome, DocusaurusWildcard>>

\* Fault variant: the '/blog' record emitted without its exact flag.
DocusaurusRoutesBlogPrefix ==
  <<[path |-> "/blog", component |-> "e35"]>>
    \o Tail(DocusaurusTopRoutes) \o <<DocusaurusDocsNest>>
    \o <<DocusaurusHome, DocusaurusWildcard>>

\* Fault variant: the not-found record emitted at the head of the list.
DocusaurusRoutesWildcardFirst ==
  <<DocusaurusWildcard>> \o DocusaurusTopRoutes
    \o <<DocusaurusDocsNest>> \o <<DocusaurusHome>>

\* refract-docs/.docusaurus/routes.js lines 4-258: the exported route table, in list order.
DocusaurusRoutes ==
  DocusaurusTopRoutes \o <<DocusaurusDocsNest>> \o <<DocusaurusHome, DocusaurusWildcard>>

\* unnamed/part_000 lines 5-134: the top-level records listed before the '/docs' node.
Part000TopRoutes ==
  <<
    [path |-> "/blog", component |-> "04d", exact |-> TRUE],
    [path |-> "/blog/archive", component |-> "182", exact |-> TRUE],
    [path |-> "/blog/authors", component |-> "0b7", exact |-> TRUE],
    [path |-> "/blog/authors/all-sebastien-lorber-articles", component |-> "4a1", exact |-> TRUE],
    [path |-> "/blog/authors/yangshun", component |-> "a68", exact |-> TRUE],
    [path |-> "/blog/first-blog-post", component |-> "89a", exact |-> TRUE],
    [path |-> "/blog/introducing-refract", component |-> "261", exact |-> TRUE],
    [path |-> "/blog/long-blog-post", component |-> "9ad", exact |-> TRUE],
    [path |-> "/blog/mdx-blog-post", component |-> "e9f", exact |-> TRUE],
    [path |-> "/blog/performance-optimization-guide", component |-> "360", exact |-> TRUE],
    [path |-> "/blog/tags", component |-> "287", exact |-> TRUE],
    [path |-> "/blog/tags/advanced", component |-> "e70", exact |-> TRUE],
    [path |-> "/blog/tags/announcement", component |-> "3d6", exact |-> TRUE],
    [path |-> "/blog/tags/best-practices", component |-> "699", exact |-> TRUE],
    [path |-> "/blog/tags/docusaurus", component |-> "704", exact |-> TRUE],
    [path |-> "/blog/tags/facebook", component |-> "858", exact |-> TRUE],
    [path |-> "/blog/tags/hello", component |-> "299", exact |-> TRUE],
    [path |-> "/blog/tags/hola", component |-> "00d", exact |-> TRUE],
    [path |-> "/blog/tags/javascript", component |-> "fcb", exact |-> TRUE],
    [path |-> "/blog/tags/optimization", component |-> "09c", exact |-> TRUE],
    [path |-> "/blog/tags/performance", component |-> "93a", exact |-> TRUE],
    [path |-> "/blog/tags/reactive", component |-> "390", exact |-> TRUE],
    [path |-> "/blog/tags/ui", component |-> "1e9", exact |-> TRUE],
    [path |-> "/blog/welcome", component |-> "d2b", exact |-> TRUE],
    [path |-> "/markdown-page", component |-> "3d7", exact |-> TRUE],
    [path |-> "/search", component |-> "822", exact |-> TRUE]
  >>

\* unnamed/part_000 lines 147-377: the page records nested innermost under '/docs'.
Part000DocsLeaves ==
  <<
    [path |-> "/docs/advanced/performance", component |-> "cef", exact |-> TRUE],
    [path |-> "/docs/advanced/testing", component |-> "7ad", exact |-> TRUE],
    [path |-> "/docs/api", component |-> "a3f", exact |-> TRUE],
    [path |-> "/docs/api/createApp", component |-> "090", exact |-> TRUE, sidebar |-> "tutorialSidebar"],
    [path |-> "/docs/api/createComponent", component |-> "e73", exact |-> TRUE, sidebar |-> "tutorialSidebar"],
    [path |-> "/docs/api/createOptic", component |-> "ae2", exact |-> TRUE, sidebar |-> "tutorialSidebar"],
    [path |-> "/docs/api/overview", component |-> "211", exact |-> TRUE, sidebar |-> "tutorialSidebar"],
    [path |-> "/docs/api/useEffect", component |-> "a6d", exact |-> TRUE, sidebar |-> "tutorialSidebar"],
    [path |-> "/docs/api/useFlash", component |-> "3ce", exact |-> TRUE, sidebar |-> "tutorialSidebar"],
    [path |-> "/docs/api/useLens", component |-> "5c2", exact |-> TRUE, sidebar |-> "tutorialSidebar"],
    [path |-> "/docs/api/useOptic", component |-> "6b0", exact |-> TRUE, sidebar |-> "tutorialSidebar"],
    [path |-> "/docs/api/useRefraction", component |-> "a76", exact |-> TRUE, sidebar |-> "tutorialSidebar"],
    [path |-> "/docs/concepts/components", component |-> "749", exact |-> TRUE, sidebar |-> "tutorialSidebar"],
    [path |-> "/docs/concepts/effects", component |-> "4d4", exact |-> TRUE, sidebar |-> "tutorialSidebar"],
    [path |-> "/docs/concepts/lenses", component |-> "d44", exact |-> TRUE, sidebar |-> "tutorialSidebar"],
    [path |-> "/docs/concepts/optics", component |-> "635", exact |-> TRUE, sidebar |-> "tutorialSidebar"],
    [path |-> "/docs/concepts/refractions", component |-> "319", exact |-> TRUE, sidebar |-> "tutorialSidebar"],
    [path |-> "/docs/concepts/state-management", component |-> "781", exact |-> TRUE],
    [path |-> "/docs/contributing", component |-> "069", exact |-> TRUE, sidebar |-> "tutorialSidebar"],
    [path |-> "/docs/developers/api-overview", component |-> "dd6", exact |-> TRUE],
    [path |-> "/docs/developers/authentication", component |-> "fe3", exact |-> TRUE],
    [path |-> "/docs/developers/endpoints", component |-> "e85", exact |-> TRUE],
    [path |-> "/docs/developers/integration-guide", component |-> "a75", exact |-> TRUE],
    [path |-> "/docs/developers/webhooks", component |-> "7fc", exact |-> TRUE],
    [path |-> "/docs/faqs/general", component |-> "10c", exact |-> TRUE],
    [path |-> "/docs/faqs/troubleshooting", component |-> "a6f", exact |-> TRUE],
    [path |-> "/docs/features/api-access", component |-> "8d9", exact |-> TRUE],
    [path |-> "/docs/features/dashboard", component |-> "8d2", exact |-> TRUE],
    [path |-> "/docs/features/realtime-feedback", component |-> "d66", exact |-> TRUE],
    [path |-> "/docs/getting-started", component |-> "2a1", exact |-> TRUE, sidebar |-> "tutorialSidebar"],
    [path |-> "/docs/getting-started/installation", component |-> "2f7", exact |-> TRUE],
    [path |-> "/docs/getting-started/quick-tour", component |-> "365", exact |-> TRUE],
    [path |-> "/docs/installation", component |-> "176", exact |-> TRUE],
    [path |-> "/docs/intro", component |-> "61d", exact |-> TRUE, sidebar |-> "tutorialSidebar"],
    [path |-> "/docs/Introduction/faq", component |-> "864", exact |-> TRUE],
    [path |-> "/docs/Introduction/getting-started", component |-> "166", exact |-> TRUE],
    [path |-> "/docs/Introduction/overview", component |-> "213", exact |-> TRUE],
    [path |-> "/docs/tutorials/animation-basics", component |-> "270", exact |-> TRUE, sidebar |-> "tutorialSidebar"],
    [path |-> "/docs/tutorials/counter-app", component |-> "680", exact |-> TRUE, sidebar |-> "tutorialSidebar"],
    [path |-> "/docs/tutorials/getting-started", component |-> "1ff", exact |-> TRUE],
    [path |-> "/docs/tutorials/global-theme", component |-> "a07", exact |-> TRUE, sidebar |-> "tutorialSidebar"],
    [path |-> "/docs/tutorials/todo-list", component |-> "447", exact |-> TRUE, sidebar |-> "tutorialSidebar"]
  >>

\* Fault variant: the middle wrapper emitted under another path.
Part000DocsNestMispathed ==
  [path |-> "/docs", component |-> "a56", routes |->
      <<[path |-> "/docs/next", component |-> "927", routes |->
        <<[path |-> "/docs", component |-> "2a1", routes |-> Part000DocsLeaves]>>]>>]

\* unnamed/part_000 lines 135-383: the '/docs' node and the wrapper nodes nested in it.
Part000DocsNest ==
  [path |-> "/docs", component |-> "a56", routes |-> 
      <<[path |-> "/docs", component |-> "927", routes |->
        <<[path |-> "/docs", component |-> "2a1", routes |-> Part000DocsLeaves]>>]>>]

\* unnamed/part_000 lines 384-388: the home record '/'.
Part000Home == [path |-> "/", component |-> "2e1", exact |-> TRUE]

\* Fault variant: the not-found record marked exact.
Part000WildcardExact == [path |-> "*", component |-> "", exact |-> TRUE]

\* unnamed/part_000 lines 389-392: the not-found record '*' (no hash, no exact flag).
Part000Wildcard == [path |-> "*", component |-> ""]

\* Fault variant: a docs index page emitted as a top-level '/docs' leaf.
Part000RoutesDocsIndex ==
  Part000TopRoutes
    \o <<[path |-> "/docs", component |-> "c0d", exact |-> TRUE]>>
    \o <<Part000DocsNest>> \o <<Part000Home, Part000Wildcard>>

\* Fault variant: the table emitted without its '/blog' record.
Part000RoutesWithoutBlog ==
  Tail(Part000TopRoutes) \o <<Part000DocsNest>>
    \o <<Part000Home, Part000Wildcard>>

\* unnamed/part_000 lines 4-393: the exported route table, in list order.
Part000Routes ==
  Part000TopRoutes \o <<Part000DocsNest>> \o <<Part000Home, Part000Wildcard>>

\* refract-docs/src/pages/index.js lines 120-224: the top-level records listed before the '/docs' node.
PagesTopRoutes ==
  <<
    [path |-> "/__docusaurus/debug", component |-> "a49", exact |-> TRUE],
    [path |-> "/__docusaurus/debug/config", component |-> "0e7", exact |-> TRUE],
    [path |-> "/__docusaurus/debug/content", component |-> "1e3", exact |-> TRUE],
    [path |-> "/__docusaurus/debug/globalData", component |-> "659", exact |-> TRUE],
    [path |-> "/__docusaurus/debug/metadata", component |-> "4b8", exact |-> TRUE],
    [path |-> "/__docusaurus/debug/registry", component |-> "b50", exact |-> TRUE],
    [path |-> "/__docusaurus/debug/routes", component |-> "bfb", exact |-> TRUE],
    [path |-> "/blog", component |-> "4b7", exact |-> TRUE],
    [path |-> "/blog/archive", component |-> "f47", exact |-> TRUE],
    [path |-> "/blog/introducing-refract", component |-> "e18", exact |-> TRUE],
    [path |-> "/blog/performance-optimization-guide", component |-> "39b", exact |-> TRUE],
    [path |-> "/blog/tags", component |-> "01d", exact |-> TRUE],
    [path |-> "/blog/tags/advanced", component |-> "7d4", exact |-> TRUE],
    [path |-> "/blog/tags/announcement", component |-> "f19", exact |-> TRUE],
    [path |-> "/blog/tags/best-practices", component |-> "538", exact |-> TRUE],
    [path |-> "/blog/tags/javascript", component |-> "27f", exact |-> TRUE],
    [path |-> "/blog/tags/optimization", component |-> "85c", exact |-> TRUE],
    [path |-> "/blog/tags/performance", component |-> "89c", exact |-> TRUE],
    [path |-> "/blog/tags/reactive", component |-> "35c", exact |-> TRUE],
    [path |-> "/blog/tags/ui", component |-> "322", exact |-> TRUE],
    [path |-> "/search", component |-> "96a", exact |-> TRUE]
  >>

\* refract-docs/src/pages/index.js lines 237-361: the page records nested innermost under '/docs'.
PagesDocsLeaves ==
  <<
    [path |-> "/docs/api/createApp", component |-> "f05", exact |-> TRUE, sidebar |-> "tutorialSidebar"],
    [path |-> "/docs/api/createComponent", component |-> "0a5", exact |-> TRUE, sidebar |-> "tutorialSidebar"],
    [path |-> "/docs/api/overview", component |-> "79e", exact |-> TRUE, sidebar |-> "tutorialSidebar"],
    [path |-> "/docs/api/useEffect", component |-> "6ce", exact |-> TRUE, sidebar |-> "tutorialSidebar"],
    [path |-> "/docs/api/useFlash", component |-> "74b", exact |-> TRUE, sidebar |-> "tutorialSidebar"],
    [path |-> "/docs/api/useLens", component |-> "15d", exact |-> TRUE, sidebar |-> "tutorialSidebar"],
    [path |-> "/docs/api/useOptic", component |-> "e77", exact |-> TRUE, sidebar |-> "tutorialSidebar"],
    [path |-> "/docs/api/useRefraction", component |-> "f39", exact |-> TRUE, sidebar |-> "tutorialSidebar"],
    [path |-> "/docs/concepts/components", component |-> "5b5", exact |-> TRUE, sidebar |-> "tutorialSidebar"],
    [path |-> "/docs/concepts/effects", component |-> "45a", exact |-> TRUE, sidebar |-> "tutorialSidebar"],
    [path |-> "/docs/concepts/lenses", component |-> "382", exact |-> TRUE, sidebar |-> "tutorialSidebar"],
    [path |-> "/docs/concepts/optics", component |-> "da5", exact |-> TRUE, sidebar |-> "tutorialSidebar"],
    [path |-> "/docs/concepts/refractions", component |-> "96d", exact |-> TRUE, sidebar |-> "tutorialSidebar"],
    [path |-> "/docs/contributing", component |-> "ff2", exact |-> TRUE, sidebar |-> "tutorialSidebar"],
    [path |-> "/docs/getting-started", component |-> "a24", exact |-> TRUE, sidebar |-> "tutorialSidebar"],
    [path |-> "/docs/installation", component |-> "b2a", exact |-> TRUE],
    [path |-> "/docs/intro", component |-> "aed", exact |-> TRUE, sidebar |-> "tutorialSidebar"],
    [path |-> "/docs/tutorials/animation-basics", component |-> "ac8", exact |-> TRUE, sidebar |-> "tutorialSidebar"],
    [path |-> "/docs/tutorials/counter-app", component |-> "774", exact |-> TRUE, sidebar |-> "tutorialSidebar"],
    [path |-> "/docs/tutorials/global-theme", component |-> "456", exact |-> TRUE, sidebar |-> "tutorialSidebar"],
    [path |-> "/docs/tutorials/todo-list", component |-> "aad", exact |-> TRUE, sidebar |-> "tutorialSidebar"]
  >>

\* refract-docs/src/pages/index.js lines 225-367: the '/docs' node and the wrapper nodes nested in it.
PagesDocsNest ==
  [path |-> "/docs", component |-> "594", routes |-> 
      <<[path |-> "/docs", component |-> "aa9", routes |->
        <<[path |-> "/docs", component |-> "b38", routes |-> PagesDocsLeaves]>>]>>]

\* refract-docs/src/pages/index.js lines 368-372: the home record '/'.
PagesHome == [path |-> "/", component |-> "b9e", exact |-> TRUE]

\* refract-docs/src/pages/index.js lines 373-376: the not-found record '*' (no hash, no exact flag).
PagesWildcard == [path |-> "*", component |-> ""]

\* Fault variant: a docs page emitted a second time, as a top-level record.
PagesRoutesDocTopLevel ==
  PagesTopRoutes
    \o <<[path |-> "/docs/intro", component |-> "aed", exact |-> TRUE]>>
    \o <<PagesDocsNest>> \o <<PagesHome, PagesWildcard>>

\* refract-docs/src/pages/index.js lines 119-377: the exported route table, in list order.
PagesRoutes ==
  PagesTopRoutes \o <<PagesDocsNest>> \o <<PagesHome, PagesWildcard>>

(***************************************************************************)
(* Sidebar tree (sidebars.js).  A bare string item 'x' of the source is    *)
(* the leaf Doc("x"); a category keeps its type, label and items.          *)
(***************************************************************************)

Doc(id) == [type |-> "doc", id |-> id]

\* Fault variant: 'concepts/state-management' listed in the category.
CoreConceptsWithStateManagement ==
  [type |-> "category", label |-> "Core Concepts", items |-> <<
     Doc("concepts/components"),
     Doc("concepts/refractions"),
     Doc("concepts/lenses"),
     Doc("concepts/optics"),
     Doc("concepts/effects"),
     Doc("concepts/state-management") >>]

CoreConcepts ==
  [type |-> "category", label |-> "Core Concepts", items |-> <<
     Doc("concepts/components"),
     Doc("concepts/refractions"),
     Doc("concepts/lenses"),
     Doc("concepts/optics"),
     Doc("concepts/effects") >>]

\* Fault variant: 'api/overview' listed twice in the category.
ApiReferenceRepeated ==
  [type |-> "category", label |-> "API Reference", items |-> <<
     Doc("api/overview"),
     Doc("api/createApp"),
     Doc("api/createComponent"),
     Doc("api/useRefraction"),
     Doc("api/useEffect"),
     Doc("api/useOptic"),
     Doc("api/useFlash"),
     Doc("api/useLens"),
     Doc("api/overview") >>]

\* Fault variant: 'api/createApp' listed ahead of 'api/overview'.
ApiReferenceReordered ==
  [type |-> "category", label |-> "API Reference", items |-> <<
     Doc("api/createApp"),
     Doc("api/overview"),
     Doc("api/createComponent"),
     Doc("api/useRefraction"),
     Doc("api/useEffect"),
     Doc("api/useOptic"),
     Doc("api/useFlash"),
     Doc("api/useLens") >>]

ApiReference ==
  [type |-> "category", label |-> "API Reference", items |-> <<
     Doc("api/overview"),
     Doc("api/createApp"),
     Doc("api/createComponent"),
     Doc("api/useRefraction"),
     Doc("api/useEffect"),
     Doc("api/useOptic"),
     Doc("api/useFlash"),
     Doc("api/useLens") >>]

Tutorials ==
  [type |-> "category", label |-> "Tutorials", items |-> <<
     Doc("tutorials/counter-app"),
     Doc("tutorials/todo-list"),
     Doc("tutorials/global-theme"),
     Doc("tutorials/animation-basics") >>]

\* Fault variant: 'installation', a page whose route names no sidebar,
\* listed at the top level.
tutorialSidebarWithInstallation ==
  << Doc("intro"),
     Doc("getting-started"),
     Doc("installation"),
     CoreConcepts,
     ApiReference,
     Tutorials,
     Doc("contributing") >>

\* Fault variant: 'intro' listed a second time, at the end of the top level.
tutorialSidebarIntroTwice ==
  << Doc("intro"),
     Doc("getting-started"),
     CoreConcepts,
     ApiReference,
     Tutorials,
     Doc("contributing"),
     Doc("intro") >>

tutorialSidebar ==
  << Doc("intro"),
     Doc("getting-started"),
     CoreConcepts,
     ApiReference,
     Tutorials,
     Doc("contributing") >>

(***************************************************************************)
(* Content corpus.  A docs file is a record of its directory below the     *)
(* docs root, its file name and the keys of its front-matter, if it has    *)
(* one; a blog post is a record of its front-matter slug and tags.         *)
(***************************************************************************)

IntroFile == [dir |-> "", file |-> "intro.md"]

GettingStartedFile == [dir |-> "", file |-> "getting-started.md"]

\* Fault variant: the file renamed after the routes were generated.
InstallationFileRenamed == [dir |-> "", file |-> "install.md"]

InstallationFile == [dir |-> "", file |-> "installation.md"]

ContributingFile == [dir |-> "", file |-> "contributing.md"]

ApiOverviewFile == [dir |-> "api", file |-> "overview.md"]

ApiCreateComponentFile == [dir |-> "api", file |-> "createComponent.md"]

ApiUseEffectFile == [dir |-> "api", file |-> "useEffect.md"]

ConceptsLensesFile == [dir |-> "concepts", file |-> "lenses.md"]

ConceptsOpticsFile == [dir |-> "concepts", file |-> "optics.md"]

TutorialsGlobalThemeFile == [dir |-> "tutorials", file |-> "global-theme.md"]

TutorialsAnimationBasicsFile == [dir |-> "tutorials", file |-> "animation-basics.md"]

\* Fault variant: the identifier written in kebab case.
ApiCreateOpticFileKebabId ==
  [dir |-> "api", file |-> "createOptic.md", id |-> "create-optic", title |-> "createOptic"]

ApiCreateOpticFile ==
  [dir |-> "api", file |-> "createOptic.md", id |-> "createOptic", title |-> "createOptic"]

ConceptsStateManagementFile ==
  [dir |-> "concepts", file |-> "state-management.md", id |-> "state-management", title |-> "State Management in Refract"]

TutorialsGettingStartedFile ==
  [dir |-> "tutorials", file |-> "getting-started.md", id |-> "getting-started", title |-> "Getting Started"]

DocsFiles ==
  << IntroFile,
     GettingStartedFile,
     InstallationFile,
     ContributingFile,
     ApiOverviewFile,
     ApiCreateComponentFile,
     ApiUseEffectFile,
     ConceptsLensesFile,
     ConceptsOpticsFile,
     TutorialsGlobalThemeFile,
     TutorialsAnimationBasicsFile,
     ApiCreateOpticFile,
     ConceptsStateManagementFile,
     TutorialsGettingStartedFile >>

\* Docs files kept without their own path (src/unnamed).  The directory is
\* the one under which the other documents link to them; the file field is
\* the name of the part that holds the text.
ApiIndexFile ==
  [dir |-> "", file |-> "part_010", id |-> "api", title |-> "API Reference"]

AdvancedPerformanceFile ==
  [dir |-> "advanced", file |-> "part_011", id |-> "performance", title |-> "Performance Optimization"]

AdvancedTestingFile ==
  [dir |-> "advanced", file |-> "part_011", id |-> "testing", title |-> "Testing Guide"]

UnnamedDocsFiles ==
  << ApiIndexFile, AdvancedPerformanceFile, AdvancedTestingFile >>

\* Fault variant: the slug written with an underscore.
IntroducingRefractPostMisspelt ==
  [slug |-> "introducing_refract",
   tags |-> <<"announcement", "reactive", "javascript", "ui">>]

IntroducingRefractPost ==
  [slug |-> "introducing-refract",
   tags |-> <<"announcement", "reactive", "javascript", "ui">>]

\* Fault variant: a tag added to the post after the routes were generated.
PerformanceGuidePostRetagged ==
  [slug |-> "performance-optimization-guide",
   tags |-> <<"performance", "optimization", "best-practices", "advanced",
              "profiling">>]

PerformanceGuidePost ==
  [slug |-> "performance-optimization-guide",
   tags |-> <<"performance", "optimization", "best-practices", "advanced">>]

BlogPosts == <<IntroducingRefractPost, PerformanceGuidePost>>

(***************************************************************************)
(* Generator defaults (spec.md 6 and 7): the route path of a blog post is  *)
(* its slug below '/blog/'; the route path of a docs file is its relative  *)
(* path below '/docs/', the last part being the front-matter id or, with   *)
(* no front-matter, the file name without its extension.                   *)
(***************************************************************************)

HasFrontMatter(f) == DOMAIN f # {"dir", "file"}

MarkdownExtension == ".md"

WithoutExtension(file) ==
  IF Len(file) > Len(MarkdownExtension)
       /\ SubSeq(file, Len(file) - Len(MarkdownExtension) + 1, Len(file))
            = MarkdownExtension
    THEN SubSeq(file, 1, Len(file) - Len(MarkdownExtension))
    ELSE file

Below(dir, name) == IF dir = "" THEN name ELSE dir \o "/" \o name

DocIdOfFile(f) ==
  Below(f.dir, IF "id" \in DOMAIN f THEN f.id ELSE WithoutExtension(f.file))

DocsRoutePath(f) == "/docs/" \o DocIdOfFile(f)

BlogRoutePath(post) == "/blog/" \o post.slug

(***************************************************************************)
(* Site configuration: the broken-link policies of the two configuration   *)
(* variants and the internal link targets (`to`) of their navbar and       *)
(* footer, in source order.                                                *)
(***************************************************************************)

\* Fault variant: the main configuration set to 'warn'.
MainConfigWarn ==
  [onBrokenLinks |-> "warn",
   onBrokenMarkdownLinks |-> "warn",
   links |-> << "/docs/api/overview", "/blog", "/docs/getting-started",
                "/docs/api/overview", "/docs/tutorials/counter-app", "/blog" >>]

MainConfig ==
  [onBrokenLinks |-> "throw",
   onBrokenMarkdownLinks |-> "warn",
   links |-> << "/docs/api/overview", "/blog", "/docs/getting-started",
                "/docs/api/overview", "/docs/tutorials/counter-app", "/blog" >>]

\* Fault variant: the navbar entry pointing at a page that was never built.
AlternateConfigStaleLink ==
  [onBrokenLinks |-> "warn",
   onBrokenMarkdownLinks |-> "warn",
   links |-> << "/docs/intro", "/docs/api-reference", "/blog",
                "/docs/getting-started", "/docs/api",
                "/docs/tutorials/getting-started", "/blog" >>]

AlternateConfig ==
  [onBrokenLinks |-> "warn",
   onBrokenMarkdownLinks |-> "warn",
   links |-> << "/docs/intro", "/docs/api", "/blog", "/docs/getting-started",
                "/docs/api", "/docs/tutorials/getting-started", "/blog" >>]

\* The Link targets of the homepage header (src/pages/index.js) and of its
\* second variant (src/components/HomepageFeatures/index.js).
HomepageHeaderLinks ==
  << "/docs/installation", "/docs/getting-started", "/docs/api/overview" >>

HomepageHeaderVariantLinks ==
  << "/docs/getting-started", "/docs/api/overview" >>

\* The absolute Markdown links of the content, in source order: the API
\* index, the performance document and the testing document.
ApiIndexMarkdownLinks ==
  << "/docs/advanced/performance", "/docs/advanced/testing",
     "/docs/tutorials/getting-started", "/docs/concepts/state-management",
     "/docs/concepts/effects" >>

PerformanceMarkdownLinks == << "/docs/api" >>

TestingMarkdownLinks == << "/docs/api" >>

(***************************************************************************)
(* Trees.  A node of a route table or of the sidebar is addressed by its   *)
(* position: the sequence of list indices leading to it from the top-level *)
(* list.  Two records are distinct when their positions differ.            *)
(***************************************************************************)

TableNames == {"docusaurus", "part000", "pages"}

Routes(t) ==
  CASE t = "docusaurus" -> DocusaurusRoutes
    [] t = "part000" -> Part000Routes
    [] t = "pages" -> PagesRoutes

HasRoutes(node) == "routes" \in DOMAIN node

HasExact(node) == "exact" \in DOMAIN node

HasSidebar(node) == "sidebar" \in DOMAIN node

IsLeaf(node) == ~HasRoutes(node)

IsExact(node) == HasExact(node) /\ node.exact

IsWildcard(node) == node.path = "*"

RECURSIVE Positions(_)
Positions(routes) ==
  UNION { {<<i>>} \cup
          (IF HasRoutes(routes[i])
             THEN {<<i>> \o q : q \in Positions(routes[i].routes)}
             ELSE {})
          : i \in 1..Len(routes) }

RECURSIVE NodeAt(_, _)
NodeAt(routes, pos) ==
  IF Len(pos) = 1 THEN routes[pos[1]]
  ELSE NodeAt(routes[pos[1]].routes, Tail(pos))

\* The nodes from the top-level record down to the node at pos.
ChainAt(routes, pos) ==
  [k \in 1..Len(pos) |-> NodeAt(routes, SubSeq(pos, 1, k))]

Ancestors(routes, pos) == SubSeq(ChainAt(routes, pos), 1, Len(pos) - 1)

LeafPositions(routes) == {pos \in Positions(routes) : IsLeaf(NodeAt(routes, pos))}

(***************************************************************************)
(* Route resolver (spec.md 4.1).                                           *)
(***************************************************************************)

\* q is a prefix of p that ends where a path segment of p ends.
PrefixAtBoundary(q, p) ==
  /\ Len(q) <= Len(p)
  /\ SubSeq(p, 1, Len(q)) = q
  /\ \/ Len(p) = Len(q)
     \/ SubSeq(q, Len(q), Len(q)) = "/"
     \/ SubSeq(p, Len(q) + 1, Len(q) + 1) = "/"

\* Matching policy: an exact node matches only the identical path, the
\* wildcard matches any path, any other node matches by prefix.
Matches(node, p) ==
  IF IsExact(node) THEN p = node.path
  ELSE IF IsWildcard(node) THEN TRUE
  ELSE PrefixAtBoundary(node.path, p)

\* The leaves reached from the top level through nodes that all match p:
\* a matching node with children is descended into, a matching node without
\* children is a page record.
RECURSIVE Candidates(_, _)
Candidates(routes, p) ==
  UNION { IF ~Matches(routes[i], p) THEN {}
          ELSE IF IsLeaf(routes[i]) THEN {<<i>>}
          ELSE {<<i>> \o q : q \in Candidates(routes[i].routes, p)}
          : i \in 1..Len(routes) }

\* Tie-break: the wildcard is the fallback; otherwise deeper wins, and at
\* equal depth exact wins over prefix.
Specificity(routes, pos) ==
  LET leaf == NodeAt(routes, pos) IN
  IF IsWildcard(leaf) /\ ~IsExact(leaf) THEN 0
  ELSE 2 * Len(pos) + (IF IsExact(leaf) THEN 1 ELSE 0)

Best(routes, p) ==
  LET cands == Candidates(routes, p) IN
  {pos \in cands :
     \A other \in cands :
        Specificity(routes, other) <= Specificity(routes, pos)}

NoMatch == <<>>

\* The results resolution may produce: a most specific candidate, or
\* NoMatch when nothing matches.
Resolve(routes, p) ==
  LET best == Best(routes, p) IN
  IF best = {} THEN {NoMatch} ELSE best

\* A resolver that scans a list in order, takes the first record that
\* matches and descends into its children; the result may end at a node
\* with children when none of them matches.
RECURSIVE FirstMatch(_, _)
FirstMatch(routes, p) ==
  LET hits == {i \in 1..Len(routes) : Matches(routes[i], p)} IN
  IF hits = {} THEN NoMatch
  ELSE LET first == CHOOSE i \in hits : \A j \in hits : i <= j IN
       IF HasRoutes(routes[first])
         THEN <<first>> \o FirstMatch(routes[first].routes, p)
         ELSE <<first>>

(***************************************************************************)
(* Sidebar tree walker (spec.md 4.2).                                      *)
(***************************************************************************)

IsCategory(item) == item.type = "category"

RECURSIVE ItemPositions(_)
ItemPositions(items) ==
  UNION { {<<i>>} \cup
          (IF IsCategory(items[i])
             THEN {<<i>> \o q : q \in ItemPositions(items[i].items)}
             ELSE {})
          : i \in 1..Len(items) }

RECURSIVE ItemAt(_, _)
ItemAt(items, pos) ==
  IF Len(pos) = 1 THEN items[pos[1]]
  ELSE ItemAt(items[pos[1]].items, Tail(pos))

\* The list of items the item at pos stands in.
SiblingsAt(items, pos) ==
  IF Len(pos) = 1 THEN items
  ELSE ItemAt(items, SubSeq(pos, 1, Len(pos) - 1)).items

\* The leaf identifiers in the subtree of a list of items, with repetition.
RECURSIVE LeafIds(_)
LeafIds(items) ==
  IF items = <<>> THEN <<>>
  ELSE (IF IsCategory(Head(items)) THEN LeafIds(Head(items).items)
        ELSE <<Head(items).id>>) \o LeafIds(Tail(items))

CategoryPositions(items) ==
  {pos \in ItemPositions(items) : IsCategory(ItemAt(items, pos))}

\* The positions of the leaves that carry the identifier id.
RECURSIVE LeafMatches(_, _)
LeafMatches(items, id) ==
  UNION { IF IsCategory(items[i])
            THEN {<<i>> \o q : q \in LeafMatches(items[i].items, id)}
            ELSE IF items[i].id = id THEN {<<i>>} ELSE {}
          : i \in 1..Len(items) }

NoItem == [type |-> "none"]

NotInSidebar == [found |-> FALSE]

\* The labels of the categories above pos, and the items next to it.
WalkAt(items, pos) ==
  LET sib == SiblingsAt(items, pos)
      i == pos[Len(pos)]
  IN [found |-> TRUE,
      pos |-> pos,
      labels |-> [k \in 1..(Len(pos) - 1) |-> ItemAt(items, SubSeq(pos, 1, k)).label],
      prev |-> IF i > 1 THEN sib[i - 1] ELSE NoItem,
      next |-> IF i < Len(sib) THEN sib[i + 1] ELSE NoItem]

Walk(items, id) ==
  LET found == LeafMatches(items, id) IN
  IF found = {} THEN {NotInSidebar}
  ELSE {WalkAt(items, pos) : pos \in found}

(***************************************************************************)
(* The router: a table is loaded once, then request paths are resolved.    *)
(***************************************************************************)

MaxProbeSegments == 2

ProbeSegments ==
  {"docs", "docsx", "blog", "api", "createApp", "nonexistent", "unknown"}

RECURSIVE ProbePaths(_)
ProbePaths(n) ==
  IF n = 0 THEN {""}
  ELSE {q \o "/" \o s : q \in ProbePaths(n - 1), s \in ProbeSegments}

TablePaths(t) == {NodeAt(Routes(t), pos).path : pos \in Positions(Routes(t))}

\* Request paths: every path some table names, and every path of one to
\* MaxProbeSegments segments drawn from ProbeSegments.
RequestPaths ==
  UNION {TablePaths(t) : t \in TableNames}
    \cup UNION {ProbePaths(n) : n \in 1..MaxProbeSegments}

DocsPrefix == "/docs/"

IsDocsPath(p) ==
  Len(p) > Len(DocsPrefix) /\ SubSeq(p, 1, Len(DocsPrefix)) = DocsPrefix

\* The content-file identifier of a docs page: its path below '/docs/'.
DocIdOf(p) == SubSeq(p, Len(DocsPrefix) + 1, Len(p))

WalkFor(t, items, m) ==
  IF m # NoMatch /\ IsDocsPath(NodeAt(Routes(t), m).path)
    THEN Walk(items, DocIdOf(NodeAt(Routes(t), m).path))
    ELSE {NotInSidebar}

\* sidebars.js, top level: the object the module exports, the two paths of
\* the copy and the message logged after it.
sidebars == [name \in {"tutorialSidebar"} |-> tutorialSidebar]

EmptyExports == [name \in {} |-> <<>>]

sourcePath == "../static/img/logo.svg"

destPath == "../static/img/favicon.ico"

SuccessMessage == "Favicon updated successfully!"

NoError == "none"

\* The state a completed load leaves behind.
LoadFinished ==
  /\ pc = "done"
  /\ moduleExports = sidebars
  /\ files = [p \in {sourcePath, destPath} |-> <<>>]
  /\ destWritable = TRUE
  /\ console = <<SuccessMessage>>
  /\ thrown = NoError

RouterInit ==
  /\ table \in TableNames
  /\ sidebar = tutorialSidebar
  /\ location = "/"
  /\ match \in Resolve(Routes(table), "/")
  /\ walk = NotInSidebar

Init ==
  /\ RouterInit
  /\ config = MainConfig
  /\ status = "idle"
  /\ checked = 0
  /\ broken = 0
  /\ warnings = 0
  /\ LoadFinished

Navigate(p) ==
  /\ location' = p
  /\ match' \in Resolve(Routes(table), p)
  /\ walk' \in WalkFor(table, sidebar, match')
  /\ UNCHANGED <<table, sidebar>>
  /\ UNCHANGED buildVars
  /\ UNCHANGED loadVars

Next == \E p \in RequestPaths : Navigate(p)

Spec == Init /\ [][Next]_vars

(***************************************************************************)
(* The build (spec.md 7): under a site configuration it checks internal    *)
(* links against the route table; a broken link fails the build under      *)
(* 'throw', is logged under 'warn' and is passed over under 'ignore'.      *)
(***************************************************************************)

MaxLinksChecked == 3

BrokenLinkPolicies == {"throw", "warn", "ignore"}

\* A configuration that sets the third recognised policy.
IgnoringConfig ==
  [onBrokenLinks |-> "ignore", onBrokenMarkdownLinks |-> "warn", links |-> <<>>]

Configs == {MainConfig, AlternateConfig, IgnoringConfig}

\* A link target is broken when it resolves to no page record of its own.
IsBrokenLink(routes, target) ==
  \A m \in Resolve(routes, target) :
     m = NoMatch \/ IsWildcard(NodeAt(routes, m))

\* The targets a build may meet: the configuration's own links and links
\* of content pages.
ContentLinks == {"/docs/api", "/docs/nonexistent", "/nonexistent"}

LinkTargets(cfg) == {cfg.links[k] : k \in 1..Len(cfg.links)} \cup ContentLinks

BuildInit ==
  /\ RouterInit
  /\ config \in Configs
  /\ status = "running"
  /\ checked = 0
  /\ broken = 0
  /\ warnings = 0
  /\ LoadFinished

CheckLink(target) ==
  /\ status = "running"
  /\ checked < MaxLinksChecked
  /\ checked' = checked + 1
  /\ IF IsBrokenLink(Routes(table), target)
       THEN /\ broken' = broken + 1
            /\ status' = IF config.onBrokenLinks = "throw"
                            THEN "failed" ELSE "running"
            /\ warnings' = IF config.onBrokenLinks = "warn"
                              THEN warnings + 1 ELSE warnings
       ELSE UNCHANGED <<broken, status, warnings>>
  /\ UNCHANGED <<config, routerVars, loadVars>>

FinishBuild ==
  /\ status = "running"
  /\ status' = "done"
  /\ UNCHANGED <<config, checked, broken, warnings, routerVars, loadVars>>

BuildNext ==
  \/ \E target \in LinkTargets(config) : CheckLink(target)
  \/ FinishBuild

BuildSpec == BuildInit /\ [][BuildNext]_vars

(***************************************************************************)
(* Loading sidebars.js (lines 59-70).  The module assigns its export,      *)
(* copies the logo over the favicon with fs.copyFileSync and logs a        *)
(* message.  The files below static/img are not part of the sources, so    *)
(* the load starts with either file present or missing and with the        *)
(* destination writable or not.  fs.copyFileSync throws when the source is *)
(* missing or the destination cannot be opened for writing, leaving the    *)
(* destination as it was; it is not atomic: after an error met once the    *)
(* destination was opened it attempts to remove the destination, which is  *)
(* then gone or left with part of the source written to it.                *)
(***************************************************************************)

MaxFileLen == 2

Bytes == {0, 1}

FileContents == UNION {[1..n -> Bytes] : n \in 0..MaxFileLen}

ImgPaths == {sourcePath, destPath}

FileSystems == UNION {[present -> FileContents] : present \in SUBSET ImgPaths}

\* The file system after path p has been removed.
Removed(fs, p) == [q \in (DOMAIN fs) \ {p} |-> fs[q]]

\* The file system after path p has been written with contents c.
Written(fs, p, c) ==
  [q \in (DOMAIN fs) \cup {p} |-> IF q = p THEN c ELSE fs[q]]

\* The contents a copy interrupted part-way may have written.
ProperPrefixes(c) == {SubSeq(c, 1, n) : n \in 0..(Len(c) - 1)}

LoadInit ==
  /\ table = "docusaurus"
  /\ sidebar = tutorialSidebar
  /\ location = "/"
  /\ match \in Resolve(Routes(table), "/")
  /\ walk = NotInSidebar
  /\ config = MainConfig
  /\ status = "idle"
  /\ checked = 0
  /\ broken = 0
  /\ warnings = 0
  /\ pc = "start"
  /\ moduleExports = EmptyExports
  /\ files \in FileSystems
  /\ destWritable \in BOOLEAN
  /\ console = <<>>
  /\ thrown = NoError

\* sidebars.js line 59: module.exports = sidebars.
AssignExports ==
  /\ pc = "start"
  /\ moduleExports' = sidebars
  /\ pc' = "exported"
  /\ UNCHANGED <<files, destWritable, console, thrown>>
  /\ UNCHANGED <<routerVars, buildVars>>

\* Fault variant: the copy wrapped in a handler that discards the error.
CopyFileErrorsSwallowed ==
  /\ pc = "exported"
  /\ pc' = "copied"
  /\ files' = IF sourcePath \in DOMAIN files /\ destWritable
                THEN Written(files, destPath, files[sourcePath])
                ELSE files
  /\ UNCHANGED <<moduleExports, destWritable, console, thrown>>
  /\ UNCHANGED <<routerVars, buildVars>>

\* sidebars.js lines 61-68: fs.copyFileSync(sourcePath, destPath).
CopyFile ==
  /\ pc = "exported"
  /\ \/ /\ sourcePath \notin DOMAIN files
        /\ thrown' = "ENOENT"
        /\ pc' = "thrown"
        /\ UNCHANGED files
     \/ /\ sourcePath \in DOMAIN files
        /\ ~destWritable
        /\ thrown' = "EACCES"
        /\ pc' = "thrown"
        /\ UNCHANGED files
     \/ /\ sourcePath \in DOMAIN files
        /\ destWritable
        /\ files' = Written(files, destPath, files[sourcePath])
        /\ pc' = "copied"
        /\ UNCHANGED thrown
     \/ /\ sourcePath \in DOMAIN files
        /\ destWritable
        /\ files' \in {Removed(files, destPath)} \cup
                      {Written(files, destPath, part) :
                         part \in ProperPrefixes(files[sourcePath])}
        /\ thrown' = "EIO"
        /\ pc' = "thrown"
  /\ UNCHANGED <<moduleExports, destWritable, console>>
  /\ UNCHANGED <<routerVars, buildVars>>

\* sidebars.js line 70: console.log('Favicon updated successfully!').
LogSuccess ==
  /\ pc = "copied"
  /\ console' = Append(console, SuccessMessage)
  /\ pc' = "done"
  /\ UNCHANGED <<moduleExports, files, destWritable, thrown>>
  /\ UNCHANGED <<routerVars, buildVars>>

LoadNext ==
  \/ AssignExports
  \/ CopyFile
  \/ LogSuccess

LoadSpec == LoadInit /\ [][LoadNext]_vars

(***************************************************************************)
(* Properties.                                                             *)
(***************************************************************************)

\* The table the router has loaded, and the record it resolved to.
Loaded == Routes(table)

Matched == match # NoMatch

MatchedLeaf == NodeAt(Loaded, match)

\* The match is the not-found record of the top-level list.
MatchedTopWildcard ==
  Matched /\ Len(match) = 1 /\ IsWildcard(MatchedLeaf) /\ IsLeaf(MatchedLeaf)

LeafPaths(routes) == {NodeAt(routes, pos).path : pos \in LeafPositions(routes)}

\* p is the path q or continues q after a '/'.
AtOrBelow(q, p) ==
  p = q \/ (Len(p) > Len(q) /\ SubSeq(p, 1, Len(q) + 1) = q \o "/")

\* p is '/docs' itself or lies below it.
UnderDocs(p) == AtOrBelow("/docs", p)

\* C1: in .docusaurus/routes.js a path that is '/docs' or lies below it and
\* equals no leaf path (such as '/docs/nonexistent') resolves to the
\* top-level '*' record: not to the '/docs' wrappers and not to no result.
C1_WildcardFallThrough ==
  (table = "docusaurus" /\ UnderDocs(location)
     /\ location \notin LeafPaths(DocusaurusRoutes))
  => MatchedTopWildcard

C1_Witness ==
  /\ table = "docusaurus"
  /\ location = "/docs/nonexistent"
  /\ MatchedTopWildcard

\* Some record other than '*', at any depth, matches p.
SomeNonWildcardMatches(routes, p) ==
  \E pos \in Positions(routes) :
     ~IsWildcard(NodeAt(routes, pos)) /\ Matches(NodeAt(routes, pos), p)

\* C2: in each of the three tables resolution of every request path
\* produces a result, and when no record other than '*' matches the path
\* the result is the '*' record.
C2_WildcardTotality ==
  /\ Matched
  /\ ~SomeNonWildcardMatches(Loaded, location) => MatchedTopWildcard

C2_Witness ==
  /\ table = "pages"
  /\ location = "/nonexistent/unknown"
  /\ ~SomeNonWildcardMatches(Loaded, location)
  /\ MatchedTopWildcard

\* C3: when the request path is the path of a record marked exact: true,
\* top-level or nested, resolution returns that record as the leaf and can
\* return no other.
C3_ExactMatchDeterminism ==
  \A pos \in Positions(Loaded) :
     (IsExact(NodeAt(Loaded, pos)) /\ NodeAt(Loaded, pos).path = location)
     => (match = pos /\ Resolve(Loaded, location) = {pos})

C3_Witness ==
  /\ table = "part000"
  /\ location = "/docs/Introduction/faq"
  /\ Matched
  /\ Len(match) = 4
  /\ IsExact(MatchedLeaf)
  /\ MatchedLeaf.path = location

\* C4: within one table no two distinct leaf records, at any depth, have
\* the same path.
C4_LeafPathsUnique ==
  \A a, b \in LeafPositions(Loaded) :
     a # b => NodeAt(Loaded, a).path # NodeAt(Loaded, b).path

C4_Witness ==
  /\ table = "pages"
  /\ Matched
  /\ Len(match) = 4
  /\ MatchedLeaf.path = "/docs/intro"
  /\ \E top \in LeafPositions(Loaded) : Len(top) = 1 /\ top # match

\* Position a addresses a node that the node at b is nested in.
IsAbove(a, b) == Len(a) < Len(b) /\ SubSeq(b, 1, Len(a)) = a

\* C5 as stated: within one table path is unique over all records at
\* every nesting level.
C5_AllPathsUnique ==
  \A a, b \in Positions(Loaded) :
     a # b => NodeAt(Loaded, a).path # NodeAt(Loaded, b).path

\* C5 amended: within one table two distinct records carry the same path
\* only when both are intermediate '/docs' nodes nested one in the other;
\* every other path is carried by a single record.
C5_OnlyDocsWrappersSharePath ==
  \A a, b \in Positions(Loaded) :
     (a # b /\ NodeAt(Loaded, a).path = NodeAt(Loaded, b).path)
     => /\ HasRoutes(NodeAt(Loaded, a))
        /\ HasRoutes(NodeAt(Loaded, b))
        /\ NodeAt(Loaded, a).path = "/docs"
        /\ (IsAbove(a, b) \/ IsAbove(b, a))

C5_Witness ==
  /\ Matched
  /\ Len(match) > 2
  /\ ChainAt(Loaded, match)[1].path = ChainAt(Loaded, match)[2].path
  /\ ChainAt(Loaded, match)[1].component # ChainAt(Loaded, match)[2].component

\* C6 as stated: every node without a routes array carries exact: true,
\* the '*' record included, and every node with a routes array has a
\* non-empty one and no exact flag.
C6_NodeShape ==
  \A pos \in Positions(Loaded) :
     LET node == NodeAt(Loaded, pos) IN
     /\ ~HasRoutes(node) => IsExact(node)
     /\ HasRoutes(node) => (node.routes # <<>> /\ ~HasExact(node))

\* C6 amended: every node without a routes array other than the '*'
\* record carries exact: true; the '*' record carries neither a routes
\* array nor an exact flag; every node with a routes array has a non-empty
\* one and no exact flag.
C6_NodeShapeButWildcard ==
  \A pos \in Positions(Loaded) :
     LET node == NodeAt(Loaded, pos) IN
     /\ (~HasRoutes(node) /\ ~IsWildcard(node)) => IsExact(node)
     /\ IsWildcard(node) => (~HasRoutes(node) /\ ~HasExact(node))
     /\ HasRoutes(node) => (node.routes # <<>> /\ ~HasExact(node))

C6_Witness ==
  /\ location = "/unknown"
  /\ MatchedTopWildcard
  /\ ~HasExact(MatchedLeaf)
  /\ \E pos \in Positions(Loaded) : HasRoutes(NodeAt(Loaded, pos))

\* C7: an exact record is the result only for the identical path; a
\* non-exact node with children ('/docs') matches exactly the paths equal
\* to its own or continuing it after a '/', so '/docsx' falls to '*'; and
\* '/blog/unknown' is not matched by the exact '/blog' record.
C7_SegmentBoundaries ==
  /\ (Matched /\ ~IsWildcard(MatchedLeaf)) => MatchedLeaf.path = location
  /\ \A pos \in Positions(Loaded) :
        HasRoutes(NodeAt(Loaded, pos))
        => (Matches(NodeAt(Loaded, pos), location)
              <=> AtOrBelow(NodeAt(Loaded, pos).path, location))
  /\ Matched =>
        \A k \in 1..(Len(match) - 1) :
           AtOrBelow(ChainAt(Loaded, match)[k].path, location)
  /\ location \in {"/docsx", "/blog/unknown"} => MatchedTopWildcard

C7_Witness ==
  /\ table = "docusaurus"
  /\ location = "/docsx"
  /\ MatchedTopWildcard
  /\ \E pos \in Positions(Loaded) :
        /\ NodeAt(Loaded, pos).path = "/docs"
        /\ ~Matches(NodeAt(Loaded, pos), location)

\* C8: when the request path is matched by a non-exact node (a '/docs'
\* wrapper or '*') and also is the path of an exact leaf lying deeper,
\* resolution returns the deeper exact leaf; in unnamed/part_000
\* '/docs/getting-started/installation' resolves to its own leaf, and in
\* .docusaurus/routes.js '/docs/api/createApp' to its own.
C8_DeeperExactWins ==
  /\ \A pos \in LeafPositions(Loaded) :
        (/\ IsExact(NodeAt(Loaded, pos))
         /\ NodeAt(Loaded, pos).path = location
         /\ \E sh \in Positions(Loaded) :
               /\ Len(sh) < Len(pos)
               /\ ~IsExact(NodeAt(Loaded, sh))
               /\ Matches(NodeAt(Loaded, sh), location))
        => match = pos
  /\ ((table = "part000" /\ location = "/docs/getting-started/installation")
       \/ (table = "docusaurus" /\ location = "/docs/api/createApp"))
     => (Matched /\ Len(match) = 4 /\ MatchedLeaf.path = location)

C8_Witness ==
  /\ table = "part000"
  /\ location = "/docs/getting-started/installation"
  /\ Matched
  /\ MatchedLeaf.path = location
  /\ "/docs/getting-started" \in LeafPaths(Loaded)
  /\ Cardinality(Candidates(Loaded, location)) = 2

\* C9 as stated: a leaf whose path starts with '/docs/' is returned with a
\* chain of exactly two wrapper levels above it.
C9_TwoWrapperLevels ==
  (Matched /\ IsDocsPath(MatchedLeaf.path))
  => Len(Ancestors(Loaded, match)) = 2

\* C9 amended: for every leaf whose path starts with '/docs/', resolving
\* that path returns the leaf together with its chain of ancestor layout
\* nodes, and the chain consists of exactly three wrapper levels above the
\* leaf, each a '/docs' node with a routes array.
C9_ThreeWrapperLevels ==
  \A pos \in LeafPositions(Loaded) :
     (IsDocsPath(NodeAt(Loaded, pos).path)
        /\ NodeAt(Loaded, pos).path = location)
     => /\ match = pos
        /\ Len(Ancestors(Loaded, match)) = 3
        /\ \A k \in 1..Len(Ancestors(Loaded, match)) :
              /\ HasRoutes(Ancestors(Loaded, match)[k])
              /\ Ancestors(Loaded, match)[k].path = "/docs"

C9_Witness ==
  /\ table = "pages"
  /\ location = "/docs/installation"
  /\ Matched
  /\ MatchedLeaf.path = location
  /\ Len(Ancestors(Loaded, match)) = 3

NoRepeats(seq) == \A i, j \in 1..Len(seq) : i # j => seq[i] # seq[j]

\* C10: every category node of tutorialSidebar has a non-empty items list
\* and no leaf identifier occurs twice within the category's subtree.
C10_SidebarWellFormed ==
  \A pos \in CategoryPositions(sidebar) :
     /\ ItemAt(sidebar, pos).items # <<>>
     /\ NoRepeats(LeafIds(ItemAt(sidebar, pos).items))

C10_Witness ==
  /\ walk.found
  /\ walk.labels = <<"API Reference">>
  /\ walk.prev = Doc("api/overview")
  /\ Len(LeafIds(ItemAt(sidebar, SubSeq(walk.pos, 1, 1)).items)) > 1

\* The identifier of the docs page the router resolved to.
MatchedDoc == Matched /\ IsDocsPath(MatchedLeaf.path)

MatchedDocId == DocIdOf(MatchedLeaf.path)

\* The item before and the item after index j of a list, NoItem at the ends.
ItemBefore(list, j) == IF j > 1 THEN list[j - 1] ELSE NoItem

ItemAfter(list, j) == IF j < Len(list) THEN list[j + 1] ELSE NoItem

\* C11: for every leaf identifier of tutorialSidebar the walk returns the
\* labels of the categories from the root to the leaf (none for a top-level
\* leaf, the one category label for a leaf of a category) and the items
\* next to it in the same items list, in declared order; for
\* 'api/createApp' that is ['API Reference'], previous 'api/overview',
\* next 'api/createComponent', and for 'intro' no label and no previous.
C11_WalkerOutput ==
  /\ MatchedDoc =>
       /\ \A j \in 1..Len(sidebar) :
             (~IsCategory(sidebar[j]) /\ sidebar[j].id = MatchedDocId)
             => /\ walk.found
                /\ walk.labels = <<>>
                /\ walk.prev = ItemBefore(sidebar, j)
                /\ walk.next = ItemAfter(sidebar, j)
       /\ \A i \in 1..Len(sidebar) :
             IsCategory(sidebar[i]) =>
               \A j \in 1..Len(sidebar[i].items) :
                  (~IsCategory(sidebar[i].items[j])
                     /\ sidebar[i].items[j].id = MatchedDocId)
                  => /\ walk.found
                     /\ walk.labels = <<sidebar[i].label>>
                     /\ walk.prev = ItemBefore(sidebar[i].items, j)
                     /\ walk.next = ItemAfter(sidebar[i].items, j)
  /\ location = "/docs/api/createApp" =>
       /\ walk.found
       /\ walk.labels = <<"API Reference">>
       /\ walk.prev = Doc("api/overview")
       /\ walk.next = Doc("api/createComponent")
  /\ location = "/docs/intro" =>
       /\ walk.found
       /\ walk.labels = <<>>
       /\ walk.prev = NoItem
       /\ walk.next = Doc("getting-started")

C11_Witness ==
  /\ location = "/docs/api/createApp"
  /\ walk.found
  /\ walk.labels = <<"API Reference">>
  /\ walk.next = Doc("api/createComponent")

\* C12: every content-file identifier occurs at most once in the whole
\* tutorialSidebar tree, so the walker has at most one matching position
\* for the page's identifier and every walk of it returns the same result.
C12_WalkerDeterminism ==
  /\ NoRepeats(LeafIds(sidebar))
  /\ MatchedDoc =>
       /\ Cardinality(LeafMatches(sidebar, MatchedDocId)) <= 1
       /\ Walk(sidebar, MatchedDocId) = {walk}

C12_Witness ==
  /\ location = "/docs/intro"
  /\ walk.found
  /\ walk.pos = <<1>>
  /\ Cardinality(LeafMatches(sidebar, MatchedDocId)) = 1

\* C13: for every blog post with front-matter slug s, the table holds a
\* record with path '/blog/' + s marked exact: true, and resolving that
\* path returns that record.
C13_BlogSlugRoundTrip ==
  \A k \in 1..Len(BlogPosts) :
     /\ \E pos \in LeafPositions(Loaded) :
           /\ NodeAt(Loaded, pos).path = BlogRoutePath(BlogPosts[k])
           /\ IsExact(NodeAt(Loaded, pos))
     /\ location = BlogRoutePath(BlogPosts[k]) =>
           /\ Matched
           /\ IsExact(MatchedLeaf)
           /\ MatchedLeaf.path = BlogRoutePath(BlogPosts[k])

C13_Witness ==
  /\ table = "part000"
  /\ location = "/blog/introducing-refract"
  /\ location = BlogRoutePath(BlogPosts[1])
  /\ Matched
  /\ IsExact(MatchedLeaf)
  /\ MatchedLeaf.path = location

\* C14: for every docs content file without front-matter, the table holds
\* an exact leaf whose path is '/docs/' followed by the file's path
\* relative to the docs root without the extension.
C14_FilenameDefault ==
  \A k \in 1..Len(DocsFiles) :
     ~HasFrontMatter(DocsFiles[k]) =>
        /\ \E pos \in LeafPositions(Loaded) :
              /\ NodeAt(Loaded, pos).path = DocsRoutePath(DocsFiles[k])
              /\ IsExact(NodeAt(Loaded, pos))
        /\ location = DocsRoutePath(DocsFiles[k]) =>
              (Matched /\ MatchedLeaf.path = location)

C14_Witness ==
  /\ table = "pages"
  /\ location = "/docs/tutorials/animation-basics"
  /\ \E k \in 1..Len(DocsFiles) :
        /\ ~HasFrontMatter(DocsFiles[k])
        /\ DocsRoutePath(DocsFiles[k]) = location
  /\ Matched
  /\ IsExact(MatchedLeaf)

\* C15: onBrokenLinks is always one of 'throw', 'warn', 'ignore'; it is
\* 'throw' in the main configuration and 'warn' in the alternate one; a
\* build that has met a broken internal link has failed under 'throw',
\* and under 'warn' and 'ignore' it never fails and can always complete.
C15_BrokenLinkPolicy ==
  /\ config.onBrokenLinks \in BrokenLinkPolicies
  /\ config = MainConfig => config.onBrokenLinks = "throw"
  /\ config = AlternateConfig => config.onBrokenLinks = "warn"
  /\ (config = MainConfig /\ broken > 0) => status = "failed"
  /\ (config.onBrokenLinks = "throw" /\ broken > 0) => status = "failed"
  /\ config.onBrokenLinks \in {"warn", "ignore"} =>
       /\ status \in {"running", "done"}
       /\ status = "running" => ENABLED FinishBuild
  /\ status = "failed" => (config.onBrokenLinks = "throw" /\ broken > 0)

C15_Witness ==
  /\ config = MainConfig
  /\ broken = 1
  /\ status = "failed"

C15_WitnessWarn ==
  /\ config = AlternateConfig
  /\ broken > 0
  /\ warnings = broken
  /\ status = "done"

\* C16: resolving a request path leaves the route table (and the sidebar)
\* unchanged, and resolving the same path again against the same table
\* returns the same record, hence the same ancestor chain.
C16_ResolutionIsPure ==
  [][/\ Routes(table') = Routes(table)
     /\ sidebar' = sidebar
     /\ location' = location =>
          /\ match' = match
          /\ ChainAt(Routes(table'), match') = ChainAt(Routes(table), match)]_vars

C16_Witness ==
  /\ table = "docusaurus"
  /\ location = "/blog"
  /\ Matched
  /\ MatchedLeaf.component = "e35"
  /\ Resolve(Loaded, location) = {match}

SetOf(seq) == {seq[k] : k \in 1..Len(seq)}

\* C17: tutorialSidebar is a finite tree in which no category lies inside
\* itself, and the walk of every page's identifier ends with a result:
\* its position when the identifier is a leaf of the tree, "not in the
\* sidebar" otherwise, as for 'installation', 'api/createOptic' and
\* 'concepts/state-management', which have routes but no sidebar entry.
C17_WalkerTotality ==
  /\ IsFiniteSet(ItemPositions(sidebar))
  /\ \A a, b \in CategoryPositions(sidebar) :
        IsAbove(a, b) => ItemAt(sidebar, a) # ItemAt(sidebar, b)
  /\ walk = NotInSidebar \/ walk.found
  /\ MatchedDoc =>
        /\ walk \in Walk(sidebar, MatchedDocId)
        /\ walk.found <=> MatchedDocId \in SetOf(LeafIds(sidebar))
  /\ (MatchedDoc /\ location \in {"/docs/installation",
                                  "/docs/api/createOptic",
                                  "/docs/concepts/state-management"})
     => walk = NotInSidebar

C17_Witness ==
  /\ table = "docusaurus"
  /\ location = "/docs/concepts/state-management"
  /\ MatchedDoc
  /\ MatchedDocId = "concepts/state-management"
  /\ walk = NotInSidebar

\* C18: every leaf whose path starts with '/docs/' lies inside the nested
\* '/docs' chain and none is a top-level record; every leaf inside the
\* chain has a path starting with '/docs/'; and every nested node's path
\* equals its parent's path or continues it after a '/'.
C18_DocsNesting ==
  /\ \A pos \in LeafPositions(Loaded) :
        IsDocsPath(NodeAt(Loaded, pos).path)
        => /\ Len(pos) > 1
           /\ HasRoutes(Loaded[pos[1]])
           /\ Loaded[pos[1]].path = "/docs"
  /\ \A pos \in LeafPositions(Loaded) :
        Len(pos) > 1 => IsDocsPath(NodeAt(Loaded, pos).path)
  /\ \A pos \in Positions(Loaded) :
        Len(pos) > 1
        => AtOrBelow(NodeAt(Loaded, SubSeq(pos, 1, Len(pos) - 1)).path,
                     NodeAt(Loaded, pos).path)

C18_Witness ==
  /\ table = "docusaurus"
  /\ location = "/docs/advanced/testing"
  /\ Matched
  /\ Len(match) > 1
  /\ Loaded[match[1]].path = "/docs"
  /\ MatchedLeaf.path = location

\* The hash suffixes a table gives its '/blog' records.
BlogComponents(routes) ==
  {NodeAt(routes, pos).component :
     pos \in {q \in Positions(routes) : NodeAt(routes, q).path = "/blog"}}

\* C19: a request path that resolves to a non-wildcard leaf in
\* .docusaurus/routes.js resolves in unnamed/part_000 to a leaf with the
\* same path; and the '/blog' records of the three tables carry pairwise
\* different hash suffixes.
C19_CrossTableAgreement ==
  /\ (table = "docusaurus" /\ Matched /\ ~IsWildcard(MatchedLeaf))
     => \A m \in Resolve(Part000Routes, location) :
           /\ m # NoMatch
           /\ NodeAt(Part000Routes, m).path = MatchedLeaf.path
  /\ BlogComponents(Loaded) # {}
  /\ \A t \in TableNames \ {table} :
        BlogComponents(Routes(t)) \cap BlogComponents(Loaded) = {}

C19_Witness ==
  /\ table = "docusaurus"
  /\ location = "/blog"
  /\ Matched
  /\ MatchedLeaf.path = "/blog"
  /\ BlogComponents(Loaded) = {"e35"}
  /\ BlogComponents(Part000Routes) = {"04d"}
  /\ BlogComponents(PagesRoutes) = {"4b7"}

\* C20: for every leaf identifier X of tutorialSidebar the table holds an
\* exact leaf with path '/docs/' + X that carries
\* sidebar: "tutorialSidebar".
C20_SidebarEntriesHaveRoutes ==
  \A k \in 1..Len(LeafIds(sidebar)) :
     \E pos \in LeafPositions(Loaded) :
        LET node == NodeAt(Loaded, pos) IN
        /\ node.path = DocsPrefix \o LeafIds(sidebar)[k]
        /\ IsExact(node)
        /\ HasSidebar(node)
        /\ node.sidebar = "tutorialSidebar"

C20_Witness ==
  /\ table = "pages"
  /\ location = "/docs/tutorials/todo-list"
  /\ MatchedDoc
  /\ walk.found
  /\ HasSidebar(MatchedLeaf)
  /\ MatchedLeaf.sidebar = "tutorialSidebar"

\* C21: for every route record carrying sidebar: "tutorialSidebar" with
\* path '/docs/' + X, the identifier X is a leaf of tutorialSidebar, so
\* the walker finds a position for every page that declares the sidebar.
C21_SidebarTaggedRoutesInSidebar ==
  /\ \A pos \in LeafPositions(Loaded) :
        LET node == NodeAt(Loaded, pos) IN
        (HasSidebar(node) /\ node.sidebar = "tutorialSidebar"
           /\ IsDocsPath(node.path))
        => DocIdOf(node.path) \in SetOf(LeafIds(sidebar))
  /\ (MatchedDoc /\ HasSidebar(MatchedLeaf)
        /\ MatchedLeaf.sidebar = "tutorialSidebar")
     => walk.found

\* The positions of the records listed before pos in the same list.
EarlierSiblings(pos) ==
  {SubSeq(pos, 1, Len(pos) - 1) \o <<i>> : i \in 1..(pos[Len(pos)] - 1)}

\* C22: the table holds exactly one '*' record, it is a top-level record
\* and the last entry of the list; no exact record is preceded in its list
\* by a non-exact record that matches its path; hence scanning in list
\* order and taking the first match returns, for the path of an exact
\* record, that record and neither '*' nor a wrapper.
C22_WildcardPlacement ==
  /\ Cardinality({pos \in Positions(Loaded) :
                    IsWildcard(NodeAt(Loaded, pos))}) = 1
  /\ IsWildcard(Loaded[Len(Loaded)])
  /\ \A pos \in Positions(Loaded) :
        IsExact(NodeAt(Loaded, pos))
        => \A sib \in EarlierSiblings(pos) :
              IsExact(NodeAt(Loaded, sib))
                \/ ~Matches(NodeAt(Loaded, sib), NodeAt(Loaded, pos).path)
  /\ \A pos \in Positions(Loaded) :
        (IsExact(NodeAt(Loaded, pos)) /\ NodeAt(Loaded, pos).path = location)
        => FirstMatch(Loaded, location) = pos

C22_Witness ==
  /\ table = "docusaurus"
  /\ location = "/"
  /\ FirstMatch(Loaded, location) = match
  /\ match = <<Len(Loaded) - 1>>
  /\ IsWildcard(Loaded[Len(Loaded)])

\* Every internal navigation link of the site, in source order.
NavigationLinks ==
  MainConfig.links \o AlternateConfig.links
    \o HomepageHeaderLinks \o HomepageHeaderVariantLinks
    \o ApiIndexMarkdownLinks \o PerformanceMarkdownLinks
    \o TestingMarkdownLinks

\* C23: every internal link target of the navbar and footer of both
\* configurations, of both homepage headers and of the absolute Markdown
\* links resolves in .docusaurus/routes.js to an exact non-wildcard leaf.
C23_NoBrokenNavigationLinks ==
  table = "docusaurus" =>
    \A k \in 1..Len(NavigationLinks) :
       /\ \A m \in Resolve(Loaded, NavigationLinks[k]) :
             /\ m # NoMatch
             /\ IsLeaf(NodeAt(Loaded, m))
             /\ IsExact(NodeAt(Loaded, m))
             /\ ~IsWildcard(NodeAt(Loaded, m))
             /\ NodeAt(Loaded, m).path = NavigationLinks[k]
       /\ location = NavigationLinks[k] =>
             /\ Matched
             /\ IsExact(MatchedLeaf)
             /\ ~IsWildcard(MatchedLeaf)
             /\ MatchedLeaf.path = location

C23_Witness ==
  /\ table = "docusaurus"
  /\ location = "/docs/api"
  /\ location \in SetOf(AlternateConfig.links)
  /\ location \in SetOf(TestingMarkdownLinks)
  /\ Matched
  /\ IsExact(MatchedLeaf)
  /\ MatchedLeaf.path = location

TagsPrefix == "/blog/tags/"

TagRoutePath(tag) == TagsPrefix \o tag

\* The tags declared by the blog posts.
DeclaredTags ==
  UNION {SetOf(BlogPosts[k].tags) : k \in 1..Len(BlogPosts)}

\* The paths of the records of a table that lie below '/blog/tags/'.
TagPaths(routes) ==
  {NodeAt(routes, pos).path : pos \in
     {q \in Positions(routes) :
        /\ Len(NodeAt(routes, q).path) > Len(TagsPrefix)
        /\ SubSeq(NodeAt(routes, q).path, 1, Len(TagsPrefix)) = TagsPrefix}}

\* C24: for every tag of a blog post's front-matter every table holds an
\* exact record '/blog/tags/<tag>'; in .docusaurus/routes.js the records
\* '/blog/tags/<x>' are exactly those of the 8 declared tags.
C24_TagRoutes ==
  /\ \A tag \in DeclaredTags :
        /\ \E pos \in Positions(Loaded) :
              /\ NodeAt(Loaded, pos).path = TagRoutePath(tag)
              /\ IsExact(NodeAt(Loaded, pos))
        /\ location = TagRoutePath(tag) =>
              (Matched /\ IsExact(MatchedLeaf) /\ MatchedLeaf.path = location)
  /\ table = "docusaurus" =>
        /\ TagPaths(Loaded) = {TagRoutePath(tag) : tag \in DeclaredTags}
        /\ Cardinality(TagPaths(Loaded)) = 8

C24_Witness ==
  /\ table = "docusaurus"
  /\ location = "/blog/tags/best-practices"
  /\ location \in {TagRoutePath(tag) : tag \in DeclaredTags}
  /\ Matched
  /\ MatchedLeaf.path = location
  /\ Cardinality(TagPaths(Loaded)) = 8

\* The docs files that declare an id in their front-matter.
IdDocsFiles ==
  SelectSeq(DocsFiles \o UnnamedDocsFiles, LAMBDA f : "id" \in DOMAIN f)

\* C25: for every docs file declaring front-matter id i in directory d of
\* the docs root, .docusaurus/routes.js holds an exact leaf with path
\* '/docs/' + d + '/' + i, '/docs/' + i for a file at the root.
C25_IdFrontMatter ==
  table = "docusaurus" =>
    \A k \in 1..Len(IdDocsFiles) :
       /\ \E pos \in LeafPositions(Loaded) :
             /\ NodeAt(Loaded, pos).path = DocsRoutePath(IdDocsFiles[k])
             /\ IsExact(NodeAt(Loaded, pos))
       /\ location = DocsRoutePath(IdDocsFiles[k]) =>
             (Matched /\ IsExact(MatchedLeaf) /\ MatchedLeaf.path = location)

C25_Witness ==
  /\ table = "docusaurus"
  /\ Len(IdDocsFiles) = 6
  /\ location = "/docs/api"
  /\ location = DocsRoutePath(ApiIndexFile)
  /\ Matched
  /\ IsExact(MatchedLeaf)
  /\ MatchedLeaf.path = location

\* The facts of a load that hold of every state it reaches: the export is
\* assigned before anything else, the message is logged only after a copy
\* that succeeded, and a load that threw has logged nothing.
\* The destination holds what the source holds.
Copied ==
  /\ sourcePath \in DOMAIN files
  /\ destPath \in DOMAIN files
  /\ files[destPath] = files[sourcePath]

LoadOrder ==
  /\ pc # "start" => moduleExports = sidebars
  /\ console # <<>> =>
        /\ console = <<SuccessMessage>>
        /\ pc = "done"
        /\ thrown = NoError
        /\ Copied
  /\ pc = "copied" => (thrown = NoError /\ Copied)
  /\ thrown # NoError => (pc = "thrown" /\ console = <<>>)

\* The three effects happen in the order export, copy, message.
LoadStepOrder ==
  /\ moduleExports' # moduleExports => pc = "start"
  /\ files' # files => (pc = "exported" /\ moduleExports = sidebars)
  /\ console' # console => (pc = "copied" /\ pc' = "done")

\* C26 as stated: the export is assigned first, then the copy, then the
\* message; the message only after a successful copy; a failed copy ends
\* the load with an exception, no message and the destination unchanged.
C26_LoadingSidebars ==
  [][ /\ LoadOrder'
      /\ LoadStepOrder
      /\ thrown' # NoError => files' = files ]_vars

\* C26, amended: as above, but the destination is unchanged when the copy
\* fails before the destination is opened for writing (source missing,
\* destination not writable); a copy that fails later may leave the
\* destination removed or partly written, and no failed copy touches any
\* other file.
C26_LoadingSidebarsAmended ==
  [][ /\ LoadOrder'
      /\ LoadStepOrder
      /\ thrown' \in {"ENOENT", "EACCES"} => files' = files
      /\ thrown' # NoError =>
            /\ sourcePath \in DOMAIN files <=> sourcePath \in DOMAIN files'
            /\ sourcePath \in DOMAIN files =>
                  files'[sourcePath] = files[sourcePath] ]_vars

C26_Witness ==
  /\ pc = "thrown"
  /\ thrown = "ENOENT"
  /\ moduleExports = sidebars
  /\ console = <<>>
  /\ destPath \in DOMAIN files
  /\ files[destPath] = <<1>>

====
